---- MODULE Spec2Model ----
(***************************************************************************)
(* Model of the ha_kanban mutation engine:                                 *)
(*   storage.py      KanbanStorage      the id -> record document (_data)  *)
(*   coordinator.py  KanbanCoordinator  the nine mutating operations and   *)
(*                                      the per-board subscriber registry  *)
(*   models.py       Board/Column/Card  to_dict / from_dict, which share   *)
(*                                      the stored id lists by reference   *)
(* Every coordinator operation is one action: the storage call(s), the     *)
(* flush and the delivery to the subscribers.                              *)
(***************************************************************************)
EXTENDS Integers, Sequences, FiniteSets, TLC

\* ---------------------------------------------------------------- bounds
\* A run is bounded by the number of boards, columns and cards that are ever
\* created (ids are never reused: models.generate_id is uuid4), by the number
\* of reorderColumns calls whose list is no permutation of the board's columns
\* and the length of such a list, and by the number of unsubscribe closures
\* handed out, and by the number of Store.async_save calls that raise. Eight
\* profiles of bounds are explored.
\* Card ordering: two columns, three cards.
CardsMaxBoards == 1
CardsMaxColumns == 2
CardsMaxCards == 3
\* Column ordering and cascades: two boards, two columns, one card,
\* one reorderColumns call with an arbitrary list.
ColumnsMaxBoards == 2
ColumnsMaxColumns == 2
ColumnsMaxCards == 1
ColumnsMaxReorderLen == 2
ColumnsMaxInvalidReorders == 1
\* Subscriptions: two boards of one column, one card, every callback
\* registered once on every board.
BusMaxBoards == 2
BusMaxColumns == 2
BusMaxCards == 1
BusMaxHandles == 4
BusMaxRegistrations == 1
\* Registry: two boards of one column, no card, three registrations, a
\* callback registered up to twice on one board.
RegistryMaxBoards == 2
RegistryMaxColumns == 2
RegistryMaxCards == 0
RegistryMaxHandles == 3
RegistryMaxRegistrations == 2
\* Board seeding: one board with the three default columns, one card.
SeedMaxBoards == 1
SeedMaxColumns == 3
SeedMaxCards == 1
\* Store failures: one board, two columns, one card, one callback
\* registered, one Store.async_save call that raises.
FaultsMaxBoards == 1
FaultsMaxColumns == 2
FaultsMaxCards == 1
FaultsMaxHandles == 1
FaultsMaxRegistrations == 1
FaultsMaxSaveFailures == 1
\* Card content: one board, one column, one card, one callback registered,
\* updateCard with any of title, due date and labels (level 2), one refresh of
\* updated_at told apart from the time of creation.
ContentMaxBoards == 1
ContentMaxColumns == 1
ContentMaxCards == 1
ContentMaxHandles == 1
ContentMaxRegistrations == 1
ContentMaxLevel == 2
ContentMaxClock == 1
\* Card titles: one board, two columns, two cards, updateCard with a title
\* (level 1), one refresh of updated_at.
TitlesMaxBoards == 1
TitlesMaxColumns == 2
TitlesMaxCards == 2
TitlesMaxLevel == 1
TitlesMaxClock == 1

\* Observers that change the registry while an event is delivered to them: one
\* board with one column and one card, two callbacks, at most one observer per
\* delivery that cancels a handle or subscribes.
ReentryMaxBoards == 1
ReentryMaxColumns == 1
ReentryMaxCards == 1
ReentryMaxHandles == 2
ReentryMaxRegistrations == 1
ReentryMaxReactions == 1

\* Two overlapping calls: one board with two columns and one card, one call
\* at a time suspended in its flush while other calls run.
OverlapMaxBoards == 1
OverlapMaxColumns == 2
OverlapMaxCards == 1
OverlapMaxHandles == 0
OverlapMaxRegistrations == 0
OverlapMaxLevel == 1
OverlapMaxClock == 1
OverlapMaxSuspended == 1

CardsLimits ==
    [boards |-> CardsMaxBoards, columns |-> CardsMaxColumns, cards |-> CardsMaxCards,
     reorderLen |-> 0, invalidReorders |-> 0, handles |-> 0, registrations |-> 0,
     saveFailures |-> 0, content |-> 0, clock |-> 0,
     reentries |-> 0, overlap |-> 0]
ColumnsLimits ==
    [boards |-> ColumnsMaxBoards, columns |-> ColumnsMaxColumns,
     cards |-> ColumnsMaxCards, reorderLen |-> ColumnsMaxReorderLen,
     invalidReorders |-> ColumnsMaxInvalidReorders, handles |-> 0,
     registrations |-> 0, saveFailures |-> 0, content |-> 0, clock |-> 0,
     reentries |-> 0, overlap |-> 0]
BusLimits ==
    [boards |-> BusMaxBoards, columns |-> BusMaxColumns, cards |-> BusMaxCards,
     reorderLen |-> 0, invalidReorders |-> 0, handles |-> BusMaxHandles,
     registrations |-> BusMaxRegistrations, saveFailures |-> 0, content |-> 0, clock |-> 0,
     reentries |-> 0, overlap |-> 0]
RegistryLimits ==
    [boards |-> RegistryMaxBoards, columns |-> RegistryMaxColumns,
     cards |-> RegistryMaxCards, reorderLen |-> 0, invalidReorders |-> 0,
     handles |-> RegistryMaxHandles, registrations |-> RegistryMaxRegistrations,
     saveFailures |-> 0, content |-> 0, clock |-> 0,
     reentries |-> 0, overlap |-> 0]
SeedLimits ==
    [boards |-> SeedMaxBoards, columns |-> SeedMaxColumns, cards |-> SeedMaxCards,
     reorderLen |-> 0, invalidReorders |-> 0, handles |-> 0, registrations |-> 0,
     saveFailures |-> 0, content |-> 0, clock |-> 0,
     reentries |-> 0, overlap |-> 0]
FaultsLimits ==
    [boards |-> FaultsMaxBoards, columns |-> FaultsMaxColumns, cards |-> FaultsMaxCards,
     reorderLen |-> 0, invalidReorders |-> 0, handles |-> FaultsMaxHandles,
     registrations |-> FaultsMaxRegistrations, saveFailures |-> FaultsMaxSaveFailures,
     content |-> 0, clock |-> 0,
     reentries |-> 0, overlap |-> 0]
ContentLimits ==
    [boards |-> ContentMaxBoards, columns |-> ContentMaxColumns,
     cards |-> ContentMaxCards, reorderLen |-> 0, invalidReorders |-> 0,
     handles |-> ContentMaxHandles, registrations |-> ContentMaxRegistrations,
     saveFailures |-> 0, content |-> ContentMaxLevel, clock |-> ContentMaxClock,
     reentries |-> 0, overlap |-> 0]
ReentryLimits ==
    [boards |-> ReentryMaxBoards, columns |-> ReentryMaxColumns,
     cards |-> ReentryMaxCards, reorderLen |-> 0, invalidReorders |-> 0,
     handles |-> ReentryMaxHandles, registrations |-> ReentryMaxRegistrations,
     saveFailures |-> 0, content |-> 0, clock |-> 0,
     reentries |-> ReentryMaxReactions, overlap |-> 0]
OverlapLimits ==
    [boards |-> OverlapMaxBoards, columns |-> OverlapMaxColumns,
     cards |-> OverlapMaxCards, reorderLen |-> 0, invalidReorders |-> 0,
     handles |-> OverlapMaxHandles, registrations |-> OverlapMaxRegistrations,
     saveFailures |-> 0, content |-> OverlapMaxLevel, clock |-> OverlapMaxClock,
     reentries |-> 0, overlap |-> OverlapMaxSuspended]
TitlesLimits ==
    [boards |-> TitlesMaxBoards, columns |-> TitlesMaxColumns,
     cards |-> TitlesMaxCards, reorderLen |-> 0, invalidReorders |-> 0,
     handles |-> 0, registrations |-> 0, saveFailures |-> 0,
     content |-> TitlesMaxLevel, clock |-> TitlesMaxClock,
     reentries |-> 0, overlap |-> 0]

\* A column id that names no column (an id the store never issued).
GhostId == 0
\* Python's None, for an optional id or position.
None == -1000

\* The observer callbacks that may be registered.
Callbacks == {"f", "g"}

\* const.DEFAULT_COLUMNS
DEFAULT_COLUMNS == <<"To Do", "In Progress", "Done">>

VARIABLES
    limits,        \* the bounds of the run, fixed by Init
    data,          \* KanbanStorage._data: [boards, columns, cards], id -> record
    saved,         \* the document last written by Store.async_save
    saveFailures,  \* Store.async_save calls so far that raised
    nextId,        \* [board, column, card]: the next fresh id of each kind
    invalidReorders, \* reorderColumns calls so far whose list was no permutation
    subscribers,   \* KanbanCoordinator._subscribers: board id -> set of callbacks
    handles,       \* the unsubscribe closures handed out: [board, cb, n], the
                   \* n-th registration of callback cb on the board
    cancelled,     \* the closures that have been called
    inflight,      \* the call suspended in async_save, if any: <<>> or <<[call,
                   \* base, written]>> with the document before and after its write
    last           \* the last call: operation, arguments, result, event, deliveries

vars ==
    <<limits, data, saved, saveFailures, nextId, invalidReorders, subscribers, handles,
      cancelled, inflight, last>>

\* ------------------------------------------------------- Python built-ins
Range(s) == {s[i] : i \in 1..Len(s)}

Min(a, b) == IF a < b THEN a ELSE b

\* dict[k] = v
Put(f, k, v) == [x \in (DOMAIN f) \cup {k} |-> IF x = k THEN v ELSE f[x]]

\* dict.pop(k, None)
Pop(f, k) == [x \in (DOMAIN f) \ {k} |-> f[x]]

\* dict.pop(k, None) that removes nothing
PopAllNothing(f, ks) == f

\* dict.pop(k, None) for every k of ks
PopAll(f, ks) == [x \in (DOMAIN f) \ ks |-> f[x]]

\* list.insert(i, x), 0-based i: a negative i counts from the end, and the
\* index is clamped into [0, len]
ListInsertAtEnd(s, i, x) == Append(s, x)

ListInsert(s, i, x) ==
    LET n == Len(s)
        j0 == IF i < 0 THEN i + n ELSE i
        j == IF j0 < 0 THEN 0 ELSE IF j0 > n THEN n ELSE j0
    IN SubSeq(s, 1, j) \o <<x>> \o SubSeq(s, j + 1, n)

\* list.remove(x): removes the first occurrence (x is in the list)
ListRemoveNothing(s, x) == s

ListRemove(s, x) ==
    LET k == CHOOSE i \in 1..Len(s) : s[i] = x /\ \A j \in 1..(i - 1) : s[j] # x
    IN SubSeq(s, 1, k - 1) \o SubSeq(s, k + 1, Len(s))

\* ------------------------------------------------------------ models.py
\* Column.from_dict keeps data["card_ids"] by reference and Column.to_dict
\* writes that same list back, so a Column read before a write to the stored
\* list sees the write. before/after: the document when the Column was read
\* and the document now.
ColumnCardIdsCopied(before, after, column_id) == before.columns[column_id].card_ids

ColumnCardIds(before, after, column_id) == after.columns[column_id].card_ids

\* Column.create
ColumnCreate(board_id, name, position) ==
    [board_id |-> board_id, name |-> name, position |-> position, card_ids |-> <<>>]

\* An optional value is a sequence: <<>> for None (or an absent keyword) and
\* <<v>> for the value v.
\* date.fromisoformat raises ValueError on s
RaisesValueError(s) == s \notin {"2026-01-02", "20260102"}

\* date.fromisoformat: the extended and the basic spelling of a date are
\* accepted; one date stands for all
DateFromIsoformat(s) ==
    CASE s = "2026-01-02" -> [year |-> 2026, month |-> 1, day |-> 2]
      [] s = "20260102" -> [year |-> 2026, month |-> 1, day |-> 2]

\* date.isoformat: always the extended spelling
DateIsoformat(d) ==
    CASE d = [year |-> 2026, month |-> 1, day |-> 2] -> "2026-01-02"

\* Card.to_dict: due_date.isoformat() if due_date else None
DueDateToDict(d) == IF d = <<>> THEN <<>> ELSE <<DateIsoformat(d[1])>>

\* Card.from_dict: date.fromisoformat(data["due_date"]) if data.get("due_date")
\* else None
DueDateFromDict(s) ==
    IF s = <<>> \/ s = <<"">> THEN <<>> ELSE <<DateFromIsoformat(s[1])>>

\* Card.create followed by Card.to_dict. Of a card's fields the model keeps
\* column_id, title, position, due_date, labels and updated_at; description
\* and assignee are handled like title, and id, created_by and created_at are
\* written once. updated_at counts the refreshes of the timestamp (0 = the
\* time of creation), up to the bound of the profile. labels = labels or []:
\* <<>> stands for both None and the empty list.
CardCreate(column_id, title, position, due_date, labels) ==
    [column_id |-> column_id, title |-> title, position |-> position,
     due_date |-> DueDateToDict(due_date), labels |-> labels, updated_at |-> 0]

\* Card.from_dict followed by Card.to_dict: what a card read by get_card is
\* stored as when it is written back
CardRoundTrip(card) ==
    [card EXCEPT !.due_date = DueDateToDict(DueDateFromDict(@))]

\* ----------------------------------------------------------- storage.py
HasBoard(D, id) == id \in DOMAIN D.boards
HasColumn(D, id) == id \in DOMAIN D.columns
HasCard(D, id) == id \in DOMAIN D.cards

\* KanbanStorage.async_create_board
StorageCreateBoard(D, board_id) ==
    [D EXCEPT !.boards = Put(@, board_id, [column_ids |-> <<>>])]

\* KanbanStorage.async_create_column
StorageCreateColumn(D, column_id, column) ==
    LET D1 == [D EXCEPT !.columns = Put(@, column_id, column)]
    IN IF HasBoard(D1, column.board_id)
       THEN [D1 EXCEPT !.boards[column.board_id].column_ids = Append(@, column_id)]
       ELSE D1

\* the loop of KanbanStorage.async_delete_board over board.column_ids
RECURSIVE DeleteColumnsLoop(_, _)
DeleteColumnsLoop(D, ids) ==
    IF ids = <<>> THEN D
    ELSE LET c == Head(ids)
             D1 == IF HasColumn(D, c)
                   THEN [D EXCEPT !.cards = PopAll(@, Range(D.columns[c].card_ids)),
                                  !.columns = Pop(@, c)]
                   ELSE D
         IN DeleteColumnsLoop(D1, Tail(ids))

\* KanbanStorage.async_delete_board
StorageDeleteBoard(D, board_id) ==
    IF ~HasBoard(D, board_id) THEN D
    ELSE LET D1 == DeleteColumnsLoop(D, D.boards[board_id].column_ids)
         IN [D1 EXCEPT !.boards = Pop(@, board_id)]

\* KanbanStorage.async_delete_column
StorageDeleteColumn(D, column_id) ==
    IF ~HasColumn(D, column_id) THEN D
    ELSE LET column == D.columns[column_id]
             D1 == [D EXCEPT !.cards = PopAll(@, Range(column.card_ids))]
             D2 == IF HasBoard(D1, column.board_id)
                      /\ column_id \in Range(D1.boards[column.board_id].column_ids)
                   THEN [D1 EXCEPT !.boards[column.board_id].column_ids =
                                        ListRemove(@, column_id)]
                   ELSE D1
         IN [D2 EXCEPT !.columns = Pop(@, column_id)]

\* the enumerate loop of KanbanStorage.async_reorder_columns, from index i
RECURSIVE ReorderLoop(_, _, _)
ReorderLoop(columns, ids, i) ==
    IF i > Len(ids) THEN columns
    ELSE LET c == ids[i]
             cols1 == IF c \in DOMAIN columns
                      THEN [columns EXCEPT ![c].position = i - 1]
                      ELSE columns
         IN ReorderLoop(cols1, ids, i + 1)

\* KanbanStorage.async_reorder_columns
StorageReorderColumns(D, board_id, ids) ==
    IF ~HasBoard(D, board_id) THEN D
    ELSE [D EXCEPT !.columns = ReorderLoop(@, ids, 1),
                   !.boards[board_id].column_ids = ids]

\* the reindex loops of async_create_card (position only) and of
\* async_move_card (position and column_id), from index i
ReindexLoopSkipped(cards, ids, i, column_id) == cards

RECURSIVE ReindexLoop(_, _, _, _)
ReindexLoop(cards, ids, i, column_id) ==
    IF i > Len(ids) THEN cards
    ELSE LET c == ids[i]
             cards1 == IF c \in DOMAIN cards
                       THEN [cards EXCEPT ![c].position = i - 1,
                                          ![c].column_id =
                                              IF column_id = None THEN @ ELSE column_id]
                       ELSE cards
         IN ReindexLoop(cards1, ids, i + 1, column_id)

\* KanbanStorage.async_create_card
StorageCreateCard(D, card_id, card) ==
    LET D1 == [D EXCEPT !.cards = Put(@, card_id, card)]
    IN IF HasColumn(D1, card.column_id)
       THEN LET ids == ListInsert(D1.columns[card.column_id].card_ids,
                                  card.position, card_id)
            IN [D1 EXCEPT !.cards = ReindexLoop(@, ids, 1, None),
                          !.columns[card.column_id].card_ids = ids]
       ELSE D1

\* datetime.now() as the new updated_at of a card whose timestamp is t
Now(t) == Min(t + 1, limits.clock)

\* KanbanStorage.async_update_card
StorageUpdateCard(D, card_id, card) ==
    [D EXCEPT !.cards = Put(@, card_id, [card EXCEPT !.updated_at = Now(@)])]

\* KanbanStorage.async_move_card returns a card (not None)
StorageMoveCardOk(D, card_id, target_column_id) ==
    HasCard(D, card_id) /\ HasColumn(D, target_column_id)

\* position = min(position, len(new_column.card_ids))
MovePosition(position, n) == Min(position, n)

\* KanbanStorage.async_move_card
StorageMoveCard(D, card_id, target_column_id, position) ==
    IF ~StorageMoveCardOk(D, card_id, target_column_id) THEN D
    ELSE LET card == D.cards[card_id]
             old == card.column_id
             \* remove from old column
             D1 == IF HasColumn(D, old) /\ card_id \in Range(D.columns[old].card_ids)
                   THEN [D EXCEPT !.columns[old].card_ids = ListRemove(@, card_id)]
                   ELSE D
             \* add to new column at position
             ids0 == ColumnCardIds(D, D1, target_column_id)
             pos == MovePosition(position, Len(ids0))
             ids == ListInsert(ids0, pos, card_id)
             \* reindex all cards in the new column, then store the moved card
             cards1 == ReindexLoop(D1.cards, ids, 1, target_column_id)
             moved == [CardRoundTrip(card) EXCEPT !.column_id = target_column_id,
                                                  !.position = pos,
                                                  !.updated_at = Now(@)]
         IN [D1 EXCEPT !.columns[target_column_id].card_ids = ids,
                       !.cards = Put(cards1, card_id, moved)]

\* KanbanStorage.async_delete_card
StorageDeleteCard(D, card_id) ==
    IF ~HasCard(D, card_id) THEN D
    ELSE LET col == D.cards[card_id].column_id
             D1 == IF HasColumn(D, col) /\ card_id \in Range(D.columns[col].card_ids)
                   THEN [D EXCEPT !.columns[col].card_ids = ListRemove(@, card_id)]
                   ELSE D
         IN [D1 EXCEPT !.cards = Pop(@, card_id)]

\* KanbanStorage.async_save: Store.async_save(self._data) writes the document
\* as it is when the call is made. before/after: the document when the
\* storage operation started and the document when it calls async_save.
FlushedDocument(before, after) == after

\* what a storage operation does, in order: it changes _data and then awaits
\* async_save, or (found = FALSE) returns early before either
StorageStepsAlwaysSave(found) == <<"mutate", "flush">>

StorageSteps(found) == IF found THEN <<"mutate", "flush">> ELSE <<>>

\* ------------------------------------------------------- coordinator.py
\* what a call that notifies nobody leaves in last.event
EventToEveryone ==
    [type |-> "none", board |-> None, position |-> None, from_column |-> None,
     calls |-> [f \in Callbacks |-> 1], raised |-> {}, propagated |-> FALSE]

NoEvent ==
    [type |-> "none", board |-> None, position |-> None, from_column |-> None,
     calls |-> [f \in Callbacks |-> 0], raised |-> {}, propagated |-> FALSE]

\* KanbanCoordinator._notify_subscribers: every callback of the board's set is
\* called once inside try/except Exception; bad = the callbacks that raise
NotifySubscribersAbort(subs, board_id, event_type, position, from_column, bad) ==
    IF board_id \notin DOMAIN subs THEN NoEvent
    ELSE LET failing == bad \cap subs[board_id]
         IN [type |-> event_type, board |-> board_id, position |-> position,
             from_column |-> from_column,
             calls |-> [f \in Callbacks |->
                          IF f \in subs[board_id] /\ (failing = {} \/ f \in failing)
                          THEN 1 ELSE 0],
             raised |-> failing, propagated |-> failing # {}]

NotifySubscribersBroadcast(subs, board_id, event_type, position, from_column, bad) ==
    [type |-> event_type, board |-> board_id, position |-> position,
     from_column |-> from_column,
     calls |-> [f \in Callbacks |->
                  IF \E b \in DOMAIN subs : f \in subs[b] THEN 1 ELSE 0],
     raised |-> {}, propagated |-> FALSE]

NotifySubscribers(subs, board_id, event_type, position, from_column, bad) ==
    IF board_id \notin DOMAIN subs THEN NoEvent
    ELSE [type |-> event_type, board |-> board_id, position |-> position,
          from_column |-> from_column,
          calls |-> [f \in Callbacks |-> IF f \in subs[board_id] THEN 1 ELSE 0],
          raised |-> bad \cap subs[board_id], propagated |-> FALSE]

\* what an observer does to the registry while an event is delivered to it:
\* callback `by` of the board's set, called after the callbacks `before`,
\* calls the cancellation handle h or subscribes h.cb for the board (h is then
\* the new registration); NoReaction = no observer touches the registry
NoHandle == [board |-> None, cb |-> "", n |-> 0]
NoReaction == [board |-> None, by |-> "", before |-> {}, act |-> "none", h |-> NoHandle]

\* the content arguments of a call that has none: no title, due date, labels
NoContent == [title |-> <<>>, due_date |-> <<>>, labels |-> <<>>]

\* the record of one call: a, b, p, ids = its arguments (the id it names, the
\* target column, the position, the id list); ok = the call found what it
\* named, mutated the document and wrote it to the store; ret = the id of the entity returned, or
\* None; from = the column a moved card was in before the call; steps = what
\* the call did, in order; content = the title, due date and labels given to
\* createCard or updateCard; entity = the Card object the call returns
\* the loop of _notify_subscribers: one step per callback called
NotifySteps(event) ==
    [i \in 1..Cardinality({f \in Callbacks : event.calls[f] > 0}) |-> "notify"]

\* a coordinator operation awaits the storage operation, then awaits
\* _notify_subscribers, then returns
CallStepsNotifyFirst(storage, notify) == notify \o storage \o <<"return">>

CallSteps(storage, notify) == storage \o notify \o <<"return">>

Call(op, a, b, p, ids, ok, ret, event) ==
    [op |-> op, a |-> a, b |-> b, p |-> p, ids |-> ids, ok |-> ok, ret |-> ret,
     from |-> None, raisedOut |-> event.propagated, event |-> event,
     steps |-> CallSteps(StorageSteps(ok), NotifySteps(event)),
     content |-> NoContent, entity |-> <<>>, removed |-> {}, react |-> NoReaction,
     of |-> ""]

\* the cards a cascade took out of the store (history of the last call)
RemovedCards(before, after) == (DOMAIN before.cards) \ (DOMAIN after.cards)

\* a coordinator operation that raised before its storage operation
Raised(call) ==
    [call EXCEPT !.ok = FALSE, !.ret = None, !.raisedOut = TRUE, !.event = NoEvent,
                 !.steps = <<"raise">>]

\* a coordinator operation whose storage operation raised out of async_save:
\* the exception leaves the storage operation after its changes to _data and
\* then the coordinator operation, before _notify_subscribers and the return
SaveFailedSwallowed(call) == call

SaveFailed(call) ==
    [call EXCEPT !.ok = FALSE, !.ret = None, !.raisedOut = TRUE, !.event = NoEvent,
                 !.steps = <<"mutate", "raise">>]

\* ---------------------------------------------------------------- inputs
BoardIdInputs == 1..(nextId.board - 1)
ColumnIdInputs == GhostId..(nextId.column - 1)
CardIdInputs == 1..(nextId.card - 1)
\* which of the callbacks registered for a board raise when they are called
RaisingInputs(board_id) ==
    SUBSET (IF board_id \in DOMAIN subscribers THEN subscribers[board_id] ELSE {})
\* what the observers of a board may do to the registry during one delivery:
\* nothing, or one of them (reached by the set iteration after any subset of
\* the others) cancels a handle of the board or subscribes a callback for it
ReactionInputs(board_id) ==
    {NoReaction} \cup
    (IF limits.reentries = 0 \/ board_id \notin DOMAIN subscribers THEN {}
     ELSE LET S == subscribers[board_id]
              n(cb) == 1 + Cardinality({h \in handles :
                                           h.board = board_id /\ h.cb = cb})
              fresh == {cb \in Callbacks : /\ Cardinality(handles) < limits.handles
                                           /\ n(cb) <= limits.registrations}
          IN UNION {
               {[board |-> board_id, by |-> f, before |-> B, act |-> "cancel",
                 h |-> h] :
                    h \in {x \in handles : x.board = board_id},
                    B \in SUBSET (S \ {f})}
               \cup
               {[board |-> board_id, by |-> f, before |-> B, act |-> "subscribe",
                 h |-> [board |-> board_id, cb |-> cb, n |-> n(cb)]] :
                    cb \in fresh, B \in SUBSET (S \ {f})}
               : f \in S})

BoardColumnInputs == {<<>>, <<"A">>, <<"A", "B">>}
ColumnPositionInputs == {None, 0, 1}
CardPositionInputs == {None} \cup ((-1)..limits.cards)
MovePositionInputs == (-1)..limits.cards
\* the content arguments of createCard. A due date of "" stands for None and
\* the empty string, which `if due_date:` treats alike; "tomorrow" is no date.
TitleInputs == {"T1"}
DueDateInputs ==
    {""} \cup (IF limits.content > 1 THEN {"20260102", "tomorrow"} ELSE {})
LabelsInputs == {<<>>} \cup (IF limits.content > 1 THEN {<<"bug">>} ELSE {})
\* the keyword arguments of updateCard: <<>> for a key that is absent or None.
\* limits.content = 0: none is given; 1: a title; 2: any of the three.
UpdateInputs ==
    [title : {<<>>} \cup (IF limits.content > 0 THEN {<<"">>, <<"T2">>} ELSE {}),
     due_date : {<<>>} \cup (IF limits.content > 1
                             THEN {<<"">>, <<"2026-01-02">>, <<"tomorrow">>}
                             ELSE {}),
     labels : {<<>>} \cup (IF limits.content > 1
                           THEN {<< <<>> >>, << <<"ux">> >>} ELSE {})]

SeqsUpTo(S, n) == UNION {[1..k -> S] : k \in 0..n}

PermutationsOf(s) ==
    {t \in [1..Len(s) -> Range(s)] : \A i \in 1..Len(s) : \E j \in 1..Len(s) : t[j] = s[i]}

\* the board's list is a permutation of ids
IsPermutation(D, board_id, ids) ==
    HasBoard(D, board_id) /\ ids \in PermutationsOf(D.boards[board_id].column_ids)

\* the id lists a caller may hand to reorderColumns: every permutation of the
\* board's current list and, while the budget of invalid calls lasts, any
\* short list of issued or unknown ids
ReorderInputs(board_id) ==
    (IF HasBoard(data, board_id)
     THEN PermutationsOf(data.boards[board_id].column_ids) ELSE {<<>>})
    \cup (IF invalidReorders < limits.invalidReorders
          THEN SeqsUpTo(ColumnIdInputs, limits.reorderLen) ELSE {})

\* does the Store.async_save call of the operation raise (the Store's write
\* fails); it may while the budget of failures lasts
SaveFailureInputs ==
    {FALSE} \cup (IF saveFailures < limits.saveFailures THEN {TRUE} ELSE {})

\* ------------------------------------------------------------------ Init
Init ==
    /\ limits \in {CardsLimits, ColumnsLimits, BusLimits, RegistryLimits, SeedLimits,
                  FaultsLimits, ContentLimits, TitlesLimits, ReentryLimits,
                  OverlapLimits}
    /\ data = [boards |-> [x \in {} |-> [column_ids |-> <<>>]],
               columns |-> [x \in {} |-> ColumnCreate(0, "", 0)],
               cards |-> [x \in {} |-> CardCreate(0, "", 0, <<>>, <<>>)]]
    /\ saved = data
    /\ saveFailures = 0
    /\ nextId = [board |-> 1, column |-> 1, card |-> 1]
    /\ invalidReorders = 0
    /\ subscribers = [x \in {} |-> {}]
    /\ handles = {}
    /\ cancelled = {}
    /\ inflight = <<>>
    /\ last = [Call("init", None, None, None, <<>>, FALSE, None, NoEvent)
               EXCEPT !.steps = <<>>]

\* --------------------------------------------------------------- actions
\* the overlap modelled is that of two calls: while a call is suspended in
\* its flush, one other call runs, and then the suspended call resumes
CallMayStart == inflight = <<>> \/ last.op = "suspend"

\* the column loop of KanbanCoordinator.async_create_board, from index i
RECURSIVE CreateColumnsLoop(_, _, _, _, _)
CreateColumnsLoop(D, board_id, names, i, first_id) ==
    IF i > Len(names) THEN D
    ELSE CreateColumnsLoop(
             StorageCreateColumn(D, first_id + i - 1,
                                 ColumnCreate(board_id, names[i], i - 1)),
             board_id, names, i + 1, first_id)

\* column_names = columns or DEFAULT_COLUMNS; <<>> stands for both an absent
\* and an empty list of names, which `or` treats alike
ColumnNamesAsGiven(columns) == columns

ColumnNames(columns) == IF columns = <<>> THEN DEFAULT_COLUMNS ELSE columns

\* n storage operations one after the other
RECURSIVE RepeatSteps(_, _)
RepeatSteps(steps, n) == IF n = 0 THEN <<>> ELSE steps \o RepeatSteps(steps, n - 1)

\* the body of the unsubscribe closure when the board has an entry: discard
\* the callback, and delete the entry when the set is empty
DiscardKeepEntry(subs, board_id, callback_fn) ==
    [subs EXCEPT ![board_id] = @ \ {callback_fn}]

Discard(subs, board_id, callback_fn) ==
    LET rest == subs[board_id] \ {callback_fn}
    IN IF rest = {} THEN Pop(subs, board_id) ELSE [subs EXCEPT ![board_id] = rest]

\* the set _notify_subscribers iterates changes size under the iterator: the
\* callback discarded was in the set, or the callback added was not
SizeChanged(react) ==
    \/ react.act = "cancel" /\ react.h.cb \in subscribers[react.board]
    \/ react.act = "subscribe" /\ react.h.cb \notin subscribers[react.board]

\* _notify_subscribers when an observer changed the registry: the for loop
\* over the set raises RuntimeError (set changed size during iteration) when
\* it asks for the next callback after `by`, outside the try/except, so the
\* callbacks not yet called are skipped and the error leaves the operation
Reentered(call, react) ==
    IF react.act = "none" THEN call
    ELSE IF ~SizeChanged(react) THEN [call EXCEPT !.react = react]
    ELSE LET called == react.before \cup {react.by}
             event == [call.event EXCEPT
                          !.calls = [f \in Callbacks |-> IF f \in called THEN 1 ELSE 0],
                          !.raised = @ \cap called,
                          !.propagated = TRUE]
             storage == SubSeq(call.steps, 1,
                               Len(call.steps) - Len(NotifySteps(call.event)) - 1)
         IN [call EXCEPT !.react = react, !.event = event, !.raisedOut = TRUE,
                         !.ret = None, !.entity = <<>>,
                         !.steps = storage \o NotifySteps(event) \o <<"raise">>]

\* the unsubscribe closure or subscribe, called by an observer during delivery
Registry(react) ==
    IF react.act = "cancel"
    THEN /\ subscribers' = Discard(subscribers, react.board, react.h.cb)
         /\ cancelled' = cancelled \cup {react.h}
         /\ UNCHANGED handles
    ELSE IF react.act = "subscribe"
    THEN /\ subscribers' = Put(subscribers, react.board,
                               subscribers[react.board] \cup {react.h.cb})
         /\ handles' = handles \cup {react.h}
         /\ UNCHANGED cancelled
    ELSE UNCHANGED <<subscribers, handles, cancelled>>

\* the operations whose overlap is modelled: their storage operation awaits
\* async_save after its write, and another call may run before it resumes
Suspendable ==
    {"addColumn", "deleteColumn", "createCard", "updateCard", "moveCard", "deleteCard"}

\* the record of a call that is suspended in async_save: it has changed
\* _data, and has neither finished the flush, notified nor returned
Suspended(call) ==
    [call EXCEPT !.op = "suspend", !.of = call.op, !.ret = None, !.entity = <<>>,
                 !.event = NoEvent, !.steps = <<"mutate">>]

\* the end of a coordinator operation whose storage operation changed _data
\* (data' is the changed document): async_save writes the document and the
\* operation goes on to notify and return (call), or async_save raises
Finish(call, failing, react) ==
    \/ /\ failing => react = NoReaction
       /\ last' = IF failing THEN SaveFailed(call) ELSE Reentered(call, react)
       /\ Registry(react)
       /\ saved' = IF failing THEN saved ELSE FlushedDocument(data, data')
       /\ saveFailures' = IF failing THEN saveFailures + 1 ELSE saveFailures
       /\ UNCHANGED inflight
    \/ \* the operation is suspended in async_save, after its write to _data
       /\ call.op \in Suspendable
       /\ limits.overlap > 0 /\ inflight = <<>>
       /\ ~failing /\ react = NoReaction /\ call.event.raised = {}
       /\ inflight' = <<[call |-> call, base |-> data, written |-> data']>>
       /\ last' = Suspended(call)
       /\ UNCHANGED <<saved, saveFailures, subscribers, handles, cancelled>>

\* which of the n async_save calls of an operation raises: none (0) or,
\* while the budget of failures lasts, any one of them
FailingSaveInputs(n) ==
    {0} \cup (IF saveFailures < limits.saveFailures THEN 1..n ELSE {})

\* KanbanCoordinator.async_create_board: async_create_board of the storage,
\* then one async_create_column per name, each with its own async_save; no
\* event. When the failAt-th async_save raises, the board and the columns
\* created so far stay in _data and the rest of the loop is not run.
CreateBoard ==
    /\ CallMayStart
    /\ \E columns \in BoardColumnInputs :
        LET column_names == ColumnNames(columns)
            board_id == nextId.board
        IN \E failAt \in FailingSaveInputs(1 + Len(column_names)) :
           LET done == IF failAt = 0 THEN column_names
                       ELSE SubSeq(column_names, 1, failAt - 1)
               call == [Call("createBoard", None, None, None, columns, TRUE,
                             board_id, NoEvent)
                        EXCEPT !.steps = CallSteps(
                                   RepeatSteps(StorageSteps(TRUE), 1 + Len(column_names)),
                                   <<>>)]
           IN /\ nextId.board <= limits.boards
              /\ nextId.column + Len(column_names) - 1 <= limits.columns
              /\ data' = CreateColumnsLoop(StorageCreateBoard(data, board_id), board_id,
                                           done, 1, nextId.column)
              /\ nextId' = [nextId EXCEPT !.board = @ + 1, !.column = @ + Len(done)]
              /\ last' = IF failAt = 0 THEN call
                         ELSE [SaveFailed(call) EXCEPT
                                  !.steps = RepeatSteps(StorageSteps(TRUE), failAt - 1)
                                            \o <<"mutate", "raise">>]
              /\ saved' = IF failAt = 0 THEN FlushedDocument(data, data')
                          ELSE IF failAt = 1 THEN saved
                          ELSE CreateColumnsLoop(StorageCreateBoard(data, board_id),
                                                 board_id,
                                                 SubSeq(column_names, 1, failAt - 2),
                                                 1, nextId.column)
              /\ saveFailures' = IF failAt = 0 THEN saveFailures ELSE saveFailures + 1
              /\ UNCHANGED <<limits, inflight, invalidReorders, subscribers, handles, cancelled>>

\* KanbanCoordinator.async_delete_board; the storage operation saves only
\* when it found the board
DeleteBoard ==
    /\ CallMayStart
    /\ \E board_id \in BoardIdInputs :
        \E bad \in RaisingInputs(board_id), failing \in SaveFailureInputs,
                   react \in ReactionInputs(board_id) :
            LET call == [Call("deleteBoard", board_id, None, None, <<>>,
                              HasBoard(data, board_id), None,
                              NotifySubscribers(subscribers, board_id, "board_deleted",
                                                None, None, bad))
                         EXCEPT !.removed = RemovedCards(data, data')]
            IN /\ failing => HasBoard(data, board_id)
               /\ data' = StorageDeleteBoard(data, board_id)
               /\ IF HasBoard(data, board_id)
                  THEN Finish(call, failing, react)
                  ELSE /\ last' = Reentered(call, react)
                           /\ Registry(react)
                           /\ UNCHANGED <<saved, saveFailures, inflight>>
               /\ UNCHANGED <<limits, nextId, invalidReorders>>

\* KanbanCoordinator.async_add_column
AddColumn ==
    /\ CallMayStart
    /\ \E board_id \in BoardIdInputs, position \in ColumnPositionInputs :
        IF ~HasBoard(data, board_id)
        THEN /\ last' = Call("addColumn", board_id, None, None, <<>>, FALSE, None,
                             NoEvent)
             /\ UNCHANGED <<limits, inflight, data, saved, saveFailures, nextId, invalidReorders,
                         subscribers, handles, cancelled>>
        ELSE LET pos == IF position = None
                        THEN Len(data.boards[board_id].column_ids) ELSE position
                 column_id == nextId.column
             IN \E bad \in RaisingInputs(board_id), failing \in SaveFailureInputs,
                   react \in ReactionInputs(board_id) :
                /\ nextId.column <= limits.columns
                /\ data' = StorageCreateColumn(data, column_id,
                                               ColumnCreate(board_id, "X", pos))
                /\ nextId' = [nextId EXCEPT !.column = @ + 1]
                /\ Finish(Call("addColumn", board_id, None, position, <<>>, TRUE,
                                column_id,
                                NotifySubscribers(subscribers, board_id, "column_added",
                                                  None, None, bad)), failing, react)
                /\ UNCHANGED <<limits, invalidReorders>>

\* KanbanCoordinator.async_reorder_columns; the storage operation saves only
\* when it found the board
ReorderColumns ==
    /\ CallMayStart
    /\ \E board_id \in BoardIdInputs :
        \E bad \in RaisingInputs(board_id), failing \in SaveFailureInputs,
                   react \in ReactionInputs(board_id) :
            \E column_ids \in ReorderInputs(board_id) :
                LET call == Call("reorderColumns", board_id, None, None,
                                 IF HasBoard(data, board_id) THEN column_ids ELSE <<>>,
                                 HasBoard(data, board_id), None,
                                 NotifySubscribers(subscribers, board_id,
                                                   "columns_reordered", None, None, bad))
                IN /\ failing => HasBoard(data, board_id)
                   /\ data' = StorageReorderColumns(data, board_id, column_ids)
                   /\ invalidReorders' =
                          IF HasBoard(data, board_id)
                             /\ ~IsPermutation(data, board_id, column_ids)
                          THEN invalidReorders + 1 ELSE invalidReorders
                   /\ IF HasBoard(data, board_id)
                      THEN Finish(call, failing, react)
                      ELSE /\ last' = Reentered(call, react)
                           /\ Registry(react)
                           /\ UNCHANGED <<saved, saveFailures, inflight>>
                   /\ UNCHANGED <<limits, nextId>>

\* KanbanCoordinator.async_delete_column
DeleteColumn ==
    /\ CallMayStart
    /\ \E column_id \in ColumnIdInputs :
        IF ~HasColumn(data, column_id)
        THEN /\ last' = Call("deleteColumn", column_id, None, None, <<>>, FALSE, None,
                             NoEvent)
             /\ UNCHANGED <<limits, inflight, data, saved, saveFailures, nextId, invalidReorders,
                         subscribers, handles, cancelled>>
        ELSE LET board_id == data.columns[column_id].board_id
             IN \E bad \in RaisingInputs(board_id), failing \in SaveFailureInputs,
                   react \in ReactionInputs(board_id) :
                /\ data' = StorageDeleteColumn(data, column_id)
                /\ Finish([Call("deleteColumn", column_id, None, None, <<>>, TRUE, None,
                                 NotifySubscribers(subscribers, board_id,
                                                   "column_deleted", None, None, bad))
                            EXCEPT !.removed = RemovedCards(data, data')], failing, react)
                /\ UNCHANGED <<limits, nextId, invalidReorders>>

\* KanbanCoordinator.async_create_card: the column is looked up, the position
\* defaulted and the due date parsed before the card is created and stored;
\* the Card object built by Card.create is what the event carries and what
\* the call returns
CreateCard ==
    /\ CallMayStart
    /\ \E column_id \in ColumnIdInputs, position \in CardPositionInputs,
       title \in TitleInputs, due_date \in DueDateInputs, labels \in LabelsInputs :
        LET content == [title |-> <<title>>, due_date |-> <<due_date>>,
                        labels |-> <<labels>>]
        IN
        IF ~HasColumn(data, column_id)
        THEN /\ last' = [Call("createCard", column_id, None, None, <<>>, FALSE, None,
                              NoEvent)
                         EXCEPT !.content = content]
             /\ UNCHANGED <<limits, inflight, data, saved, saveFailures, nextId, invalidReorders,
                         subscribers, handles, cancelled>>
        ELSE IF due_date # "" /\ RaisesValueError(due_date)
        THEN /\ last' = [Raised(Call("createCard", column_id, None, position, <<>>,
                                     FALSE, None, NoEvent))
                         EXCEPT !.content = content]
             /\ UNCHANGED <<limits, inflight, data, saved, saveFailures, nextId, invalidReorders,
                         subscribers, handles, cancelled>>
        ELSE LET pos == IF position = None
                        THEN Len(data.columns[column_id].card_ids) ELSE position
                 parsed_due_date == IF due_date = "" THEN <<>>
                                    ELSE <<DateFromIsoformat(due_date)>>
                 card_id == nextId.card
                 card == CardCreate(column_id, title, pos, parsed_due_date, labels)
                 board_id == data.columns[column_id].board_id
             IN \E bad \in RaisingInputs(board_id), failing \in SaveFailureInputs,
                   react \in ReactionInputs(board_id) :
                /\ nextId.card <= limits.cards
                /\ data' = StorageCreateCard(data, card_id, card)
                /\ nextId' = [nextId EXCEPT !.card = @ + 1]
                /\ Finish([Call("createCard", column_id, None, position, <<>>, TRUE,
                                card_id,
                                NotifySubscribers(subscribers, board_id, "card_created",
                                                  card.position, None, bad))
                           EXCEPT !.content = content, !.entity = <<card>>], failing, react)
                /\ UNCHANGED <<limits, invalidReorders>>

\* the loop of KanbanCoordinator.async_update_card over the keyword arguments:
\* setattr for every value that is not None, a due date string parsed first
ApplyUpdates(card, updates) ==
    [card EXCEPT
        !.title = IF updates.title = <<>> THEN @ ELSE updates.title[1],
        !.due_date = IF updates.due_date = <<>> THEN @
                     ELSE DueDateToDict(<<DateFromIsoformat(updates.due_date[1])>>),
        !.labels = IF updates.labels = <<>> THEN @ ELSE updates.labels[1]]

\* get_card builds a Card object from the stored record (Card.from_dict), so
\* the loop's setattr calls on that object leave the document D as it is
\* until async_update_card of the storage writes the object back
CardObjectEditsShared(D, card_id, card) == [D EXCEPT !.cards[card_id] = card]

CardObjectEdits(D, card_id, card) == D

\* KanbanCoordinator.async_update_card
UpdateCard ==
    /\ CallMayStart
    /\ \E card_id \in CardIdInputs, updates \in UpdateInputs :
        IF ~HasCard(data, card_id)
        THEN /\ last' = [Call("updateCard", card_id, None, None, <<>>, FALSE, None,
                              NoEvent)
                         EXCEPT !.content = updates]
             /\ UNCHANGED <<limits, inflight, data, saved, saveFailures, nextId, invalidReorders,
                         subscribers, handles, cancelled>>
        ELSE IF updates.due_date # <<>> /\ RaisesValueError(updates.due_date[1])
        THEN \* the values before the due date are set on the object, then
             \* date.fromisoformat raises
             /\ data' = CardObjectEdits(
                            data, card_id,
                            ApplyUpdates(CardRoundTrip(data.cards[card_id]),
                                         [updates EXCEPT !.due_date = <<>>]))
             /\ last' = [Raised(Call("updateCard", card_id, None, None, <<>>, FALSE,
                                     None, NoEvent))
                         EXCEPT !.content = updates]
             /\ UNCHANGED <<limits, inflight, saved, saveFailures, nextId, invalidReorders,
                         subscribers, handles, cancelled>>
        ELSE LET card == ApplyUpdates(CardRoundTrip(data.cards[card_id]), updates)
                 board_id == IF HasColumn(data, card.column_id)
                             THEN data.columns[card.column_id].board_id ELSE None
             IN \E bad \in RaisingInputs(board_id), failing \in SaveFailureInputs,
                   react \in ReactionInputs(board_id) :
                /\ data' = StorageUpdateCard(data, card_id, card)
                /\ Finish([Call("updateCard", card_id, None, None, <<>>, TRUE, card_id,
                                IF board_id = None THEN NoEvent
                                ELSE NotifySubscribers(subscribers, board_id,
                                                       "card_updated", card.position,
                                                       None, bad))
                           EXCEPT !.content = updates,
                                  !.entity = <<data'.cards[card_id]>>], failing, react)
                /\ UNCHANGED <<limits, nextId, invalidReorders>>

\* KanbanCoordinator.async_move_card
MoveCard ==
    /\ CallMayStart
    /\ \E card_id \in CardIdInputs, target_column_id \in ColumnIdInputs,
       position \in MovePositionInputs :
        IF ~StorageMoveCardOk(data, card_id, target_column_id)
        THEN /\ last' = Call("moveCard", card_id, target_column_id, None, <<>>,
                             FALSE, None, NoEvent)
             /\ UNCHANGED <<limits, inflight, data, saved, saveFailures, nextId, invalidReorders,
                         subscribers, handles, cancelled>>
        ELSE LET from_column_id == data.cards[card_id].column_id
                 board_id == data.columns[target_column_id].board_id
             IN \E bad \in RaisingInputs(board_id), failing \in SaveFailureInputs,
                   react \in ReactionInputs(board_id) :
                /\ data' = StorageMoveCard(data, card_id, target_column_id, position)
                /\ Finish([Call("moveCard", card_id, target_column_id, position,
                                 <<>>, TRUE, card_id,
                                 NotifySubscribers(subscribers, board_id, "card_moved",
                                                   position, from_column_id, bad))
                            EXCEPT !.from = from_column_id,
                                   !.entity = <<data'.cards[card_id]>>], failing, react)
                /\ UNCHANGED <<limits, nextId, invalidReorders>>

\* KanbanCoordinator.async_delete_card
DeleteCard ==
    /\ CallMayStart
    /\ \E card_id \in CardIdInputs :
        IF ~HasCard(data, card_id)
        THEN /\ last' = Call("deleteCard", card_id, None, None, <<>>, FALSE, None,
                             NoEvent)
             /\ UNCHANGED <<limits, inflight, data, saved, saveFailures, nextId, invalidReorders,
                         subscribers, handles, cancelled>>
        ELSE LET col == data.cards[card_id].column_id
                 board_id == IF HasColumn(data, col)
                             THEN data.columns[col].board_id ELSE None
             IN \E bad \in RaisingInputs(board_id), failing \in SaveFailureInputs,
                   react \in ReactionInputs(board_id) :
                /\ data' = StorageDeleteCard(data, card_id)
                /\ Finish(Call("deleteCard", card_id, None, None, <<>>, TRUE, None,
                                IF board_id = None THEN NoEvent
                                ELSE NotifySubscribers(subscribers, board_id,
                                                       "card_deleted", None, None, bad)), failing, react)
                /\ UNCHANGED <<limits, nextId, invalidReorders>>

\* KanbanCoordinator.subscribe: it touches neither the document nor the store
Subscribe ==
    /\ CallMayStart
    /\ \E board_id \in BoardIdInputs, callback_fn \in Callbacks :
        LET n == 1 + Cardinality({h \in handles :
                                     h.board = board_id /\ h.cb = callback_fn})
        IN /\ Cardinality(handles) < limits.handles
           /\ n <= limits.registrations
           /\ subscribers' = Put(subscribers, board_id,
                                 (IF board_id \in DOMAIN subscribers
                                  THEN subscribers[board_id] ELSE {})
                                 \cup {callback_fn})
           /\ handles' = handles \cup {[board |-> board_id, cb |-> callback_fn,
                                         n |-> n]}
           /\ last' = [Call("subscribe", board_id, None, None, <<>>, TRUE, n, NoEvent)
                       EXCEPT !.steps = <<"return">>]
           /\ UNCHANGED <<limits, inflight, data, saved, saveFailures, nextId, invalidReorders, cancelled>>

\* the unsubscribe closure returned by KanbanCoordinator.subscribe; it raises
\* KeyError when the board has no entry left
Unsubscribe ==
    /\ CallMayStart
    /\ \E h \in handles :
        /\ cancelled' = cancelled \cup {h}
        /\ IF h.board \notin DOMAIN subscribers
           THEN /\ last' = [Call("unsubscribe", h.board, None, None, <<>>, FALSE,
                                 h.n, NoEvent)
                            EXCEPT !.raisedOut = TRUE, !.steps = <<"raise">>]
                /\ UNCHANGED subscribers
           ELSE /\ subscribers' = Discard(subscribers, h.board, h.cb)
                /\ last' = [Call("unsubscribe", h.board, None, None, <<>>, TRUE,
                                 h.n, NoEvent)
                            EXCEPT !.steps = <<"return">>]
        /\ UNCHANGED <<limits, inflight, data, saved, saveFailures, nextId, invalidReorders, handles>>

\* the event type each coordinator operation passes to _notify_subscribers
ResumeEventType(op) ==
    CASE op = "addColumn" -> "column_added"
      [] op = "deleteColumn" -> "column_deleted"
      [] op = "createCard" -> "card_created"
      [] op = "updateCard" -> "card_updated"
      [] op = "moveCard" -> "card_moved"
      [] op = "deleteCard" -> "card_deleted"

\* the board a resumed operation notifies: addColumn its argument;
\* deleteColumn, createCard and deleteCard the board of the column they read
\* before the storage operation; updateCard and moveCard the board of the
\* column they look up after it (None when that column is gone)
ResumeBoard(call, base, D) ==
    CASE call.op = "addColumn" -> call.a
      [] call.op \in {"deleteColumn", "createCard"} -> base.columns[call.a].board_id
      [] call.op = "updateCard" ->
            LET c == base.cards[call.a].column_id
            IN IF HasColumn(D, c) THEN D.columns[c].board_id ELSE None
      [] call.op = "moveCard" ->
            IF HasColumn(D, call.b) THEN D.columns[call.b].board_id ELSE None
      [] call.op = "deleteCard" ->
            LET c == base.cards[call.a].column_id
            IN IF HasColumn(base, c) THEN base.columns[c].board_id ELSE None

\* what the resumed operation writes to _data after async_save: nothing
ResumedDocumentWrittenBack(written, current) == written

ResumedDocument(written, current) == current

\* the suspended operation resumes: async_save completes, the operation
\* notifies the observers registered now and returns
Resume ==
    /\ inflight # <<>>
    /\ LET call == inflight[1].call
           board_id == ResumeBoard(call, inflight[1].base, data)
           position == IF call.op \in {"createCard", "updateCard"}
                       THEN call.entity[1].position
                       ELSE IF call.op = "moveCard" THEN call.p ELSE None
       IN \E bad \in RaisingInputs(board_id), react \in ReactionInputs(board_id) :
             LET event == IF board_id = None THEN NoEvent
                          ELSE NotifySubscribers(subscribers, board_id,
                                                 ResumeEventType(call.op), position,
                                                 call.from, bad)
             IN /\ data' = ResumedDocument(inflight[1].written, data)
                /\ saved' = FlushedDocument(saved, data')
                /\ last' = Reentered(
                               [call EXCEPT !.op = "resume", !.of = call.op,
                                            !.event = event,
                                            !.steps = CallSteps(StorageSteps(TRUE),
                                                                NotifySteps(event))],
                               react)
                /\ Registry(react)
                /\ inflight' = <<>>
                /\ UNCHANGED <<limits, saveFailures, nextId, invalidReorders>>

Next ==
    \/ Resume
    \/ CreateBoard
    \/ DeleteBoard
    \/ AddColumn
    \/ ReorderColumns
    \/ DeleteColumn
    \/ CreateCard
    \/ UpdateCard
    \/ MoveCard
    \/ DeleteCard
    \/ Subscribe
    \/ Unsubscribe

Spec == Init /\ [][Next]_vars

\* ---------------------------------------------------------------- claims
Mutations ==
    {"addColumn", "reorderColumns", "deleteColumn", "createCard", "updateCard",
     "moveCard", "deleteCard", "deleteBoard"}

CardIds(D, c) == D.columns[c].card_ids
ColumnIds(D, b) == D.boards[b].column_ids
NoDuplicates(s) == \A i, j \in 1..Len(s) : s[i] = s[j] => i = j
Observers(b) == IF b \in DOMAIN subscribers THEN subscribers[b] ELSE {}

\* C1: in every reachable state, for every column C, every card listed in C's
\* card list has a stored position equal to its (0-based) index in that list.
C1_CardPositionsMatchIndex ==
    \A c \in DOMAIN data.columns : \A i \in 1..Len(CardIds(data, c)) :
        /\ CardIds(data, c)[i] \in DOMAIN data.cards
        /\ data.cards[CardIds(data, c)[i]].position = i - 1

\* C2: as long as reorderColumns was only ever given permutations of the
\* board's columns, every column listed in a board's column list has a stored
\* position equal to its (0-based) index in that list.
C2_ColumnPositionsMatchIndex ==
    invalidReorders = 0 =>
        \A b \in DOMAIN data.boards : \A i \in 1..Len(ColumnIds(data, b)) :
            /\ ColumnIds(data, b)[i] \in DOMAIN data.columns
            /\ data.columns[ColumnIds(data, b)[i]].position = i - 1

\* C3: in every reachable state (whatever id lists reorderColumns was given),
\* every id in a board's column list names a stored column whose board_id is
\* that board, no id occurs twice in one list, and no id occurs in the lists
\* of two boards.
C3_BoardListsWellFormed ==
    /\ \A b \in DOMAIN data.boards :
          /\ \A c \in Range(ColumnIds(data, b)) :
                c \in DOMAIN data.columns /\ data.columns[c].board_id = b
          /\ NoDuplicates(ColumnIds(data, b))
    /\ \A b1, b2 \in DOMAIN data.boards :
          b1 # b2 => Range(ColumnIds(data, b1)) \cap Range(ColumnIds(data, b2)) = {}

\* C4: in every reachable state, every id in a column's card list names a
\* stored card whose column_id is that column, no id occurs twice in one list,
\* and no id occurs in the lists of two columns.
C4_CardListsWellFormed ==
    /\ \A c \in DOMAIN data.columns :
          /\ \A k \in Range(CardIds(data, c)) :
                k \in DOMAIN data.cards /\ data.cards[k].column_id = c
          /\ NoDuplicates(CardIds(data, c))
    /\ \A c1, c2 \in DOMAIN data.columns :
          c1 # c2 => Range(CardIds(data, c1)) \cap Range(CardIds(data, c2)) = {}

\* C4 witness: a card was moved out of a column that keeps another card into a
\* different column that already held a card.
C4_MovedBetweenColumns ==
    /\ last.op = "moveCard" /\ last.ok /\ last.from # last.b
    /\ last.from \in DOMAIN data.columns
    /\ Len(CardIds(data, last.from)) >= 1
    /\ Len(CardIds(data, last.b)) >= 2

\* the board that owns column c in document D, or None
BoardOf(D, c) == IF c \in DOMAIN D.columns THEN D.columns[c].board_id ELSE None

\* the boards whose columns or cards the call recorded in L changes, read in
\* the document D the call started from
AffectedBoards(D, L) ==
    CASE L.op \in {"addColumn", "reorderColumns", "deleteBoard"} -> {L.a}
      [] L.op \in {"deleteColumn", "createCard"} -> {BoardOf(D, L.a)}
      [] L.op \in {"updateCard", "deleteCard"} -> {BoardOf(D, D.cards[L.a].column_id)}
      [] L.op = "moveCard" -> {BoardOf(D, L.from), BoardOf(D, L.b)}
      [] OTHER -> {}

EventType(op) ==
    CASE op = "addColumn" -> "column_added"
      [] op = "reorderColumns" -> "columns_reordered"
      [] op = "deleteColumn" -> "column_deleted"
      [] op = "createCard" -> "card_created"
      [] op = "updateCard" -> "card_updated"
      [] op = "moveCard" -> "card_moved"
      [] op = "deleteCard" -> "card_deleted"
      [] op = "deleteBoard" -> "board_deleted"
      [] OTHER -> "none"

\* C5: on every successful mutating call, each callback registered for a board
\* the call affects is invoked exactly once with the call's event type, and a
\* callback registered for none of these boards (never registered, or
\* cancelled before the call) is invoked zero times.
C5_EachObserverOnce ==
    [][(last'.op \in Mutations /\ last'.ok) =>
          \A f \in Callbacks :
              IF \E b \in AffectedBoards(data, last') : f \in Observers(b)
              THEN last'.event.calls[f] = 1 /\ last'.event.type = EventType(last'.op)
              ELSE last'.event.calls[f] = 0]_vars

\* the mutation of the call recorded in last is in the document
Committed ==
    CASE last.op = "addColumn" -> last.ret \in DOMAIN data.columns
      [] last.op = "reorderColumns" -> ColumnIds(data, last.a) = last.ids
      [] last.op = "deleteColumn" -> last.a \notin DOMAIN data.columns
      [] last.op = "createCard" ->
            /\ last.ret \in DOMAIN data.cards
            /\ last.ret \in Range(CardIds(data, last.a))
      [] last.op = "updateCard" -> last.a \in DOMAIN data.cards
      [] last.op = "moveCard" ->
            /\ data.cards[last.a].column_id = last.b
            /\ last.a \in Range(CardIds(data, last.b))
      [] last.op = "deleteCard" -> last.a \notin DOMAIN data.cards
      [] last.op = "deleteBoard" -> last.a \notin DOMAIN data.boards
      [] OTHER -> TRUE

\* the entity a successful call returns: the new column, the created, updated
\* or moved card; None for the calls that return nothing
NormalResult ==
    CASE last.op \in {"addColumn", "createCard"} -> last.ret # None
      [] last.op \in {"updateCard", "moveCard"} -> last.ret = last.a
      [] OTHER -> last.ret = None

\* C6: when a callback of board B raises during the delivery of a successful
\* mutating call's event and no callback changes the registry during that
\* delivery, every callback registered for B (the raising ones
\* and all the others) has been invoked once with that event, the call returns
\* its normal result without raising, and its mutation is in the document.
C6_ObserverFailureIsolated ==
    (last.op \in Mutations /\ last.ok /\ last.event.raised # {}
                            /\ last.react = NoReaction) =>
        /\ \A f \in Callbacks :
              last.event.calls[f] = IF f \in Observers(last.event.board) THEN 1 ELSE 0
        /\ last.event.type = EventType(last.op)
        /\ ~last.raisedOut
        /\ NormalResult
        /\ Committed

\* C6 witness: one callback of the board raised and another one, which did
\* not raise, is registered for the same board.
C6_OneRaisedOtherRegistered ==
    /\ last.op = "createCard" /\ last.ok
    /\ last.event.raised # {}
    /\ Observers(last.event.board) \ last.event.raised # {}

\* C7: a deleteColumn(X) on an existing column X leaves X out of the store and
\* out of its board's column list, removes every card of X's card list, and
\* removes no other column and no other card.
C7_DeleteColumnCascade ==
    [][(last'.op = "deleteColumn" /\ last'.ok) =>
          LET X == last'.a
              B == data.columns[X].board_id
          IN /\ X \notin DOMAIN data'.columns
             /\ B \in DOMAIN data'.boards => X \notin Range(ColumnIds(data', B))
             /\ \A k \in Range(CardIds(data, X)) : k \notin DOMAIN data'.cards
             /\ DOMAIN data'.columns = (DOMAIN data.columns) \ {X}
             /\ DOMAIN data'.cards = (DOMAIN data.cards) \ Range(CardIds(data, X))]_vars

\* C8: a deleteBoard(B) on an existing board B, in any reachable state, leaves
\* no board B, no column whose board_id is B and no card whose column belonged
\* to B, and leaves the columns and cards of every other board as they were.
C8_DeleteBoardCascade ==
    [][(last'.op = "deleteBoard" /\ last'.ok) =>
          LET B == last'.a
          IN /\ B \notin DOMAIN data'.boards
             /\ \A c \in DOMAIN data'.columns : data'.columns[c].board_id # B
             /\ \A k \in DOMAIN data.cards :
                   BoardOf(data, data.cards[k].column_id) = B => k \notin DOMAIN data'.cards
             /\ \A c \in DOMAIN data.columns :
                   data.columns[c].board_id # B =>
                       c \in DOMAIN data'.columns /\ data'.columns[c] = data.columns[c]
             /\ \A k \in DOMAIN data.cards :
                   BoardOf(data, data.cards[k].column_id) \notin {B, None} =>
                       k \in DOMAIN data'.cards /\ data'.cards[k] = data.cards[k]]_vars

\* C9: a successful moveCard of card c from column A into a different column T
\* at a position p with 0 <= p <= len(T.card_ids) leaves c with column_id T and
\* position p at index p of T's list, keeps the cards of T that were at an
\* index < p in place, shifts those at an index >= p by one, and leaves every
\* card of T with a stored position equal to its index.
C9_MoveAcrossColumns ==
    [][(/\ last'.op = "moveCard" /\ last'.ok
        /\ last'.from # last'.b
        /\ 0 <= last'.p /\ last'.p <= Len(CardIds(data, last'.b))) =>
          LET c == last'.a
              T == last'.b
              p == last'.p
              old == CardIds(data, T)
              new == CardIds(data', T)
          IN /\ data'.cards[c].column_id = T
             /\ data'.cards[c].position = p
             /\ Len(new) = Len(old) + 1
             /\ new[p + 1] = c
             /\ \A i \in 1..Len(old) : new[IF i <= p THEN i ELSE i + 1] = old[i]
             /\ \A i \in 1..Len(new) : data'.cards[new[i]].position = i - 1]_vars

\* C9 witness: a card was moved into the middle of a different column: the
\* target holds a card before it and a card after it.
C9_MovedIntoMiddle ==
    /\ last.op = "moveCard" /\ last.ok /\ last.from # last.b
    /\ last.p = 1
    /\ Len(CardIds(data, last.b)) = 3
    /\ CardIds(data, last.b)[2] = last.a

\* C10: a successful moveCard whose target is the card's current column, at a
\* position p >= 0, turns the list into the old list with the card removed and
\* re-inserted at index min(p, n - 1), n the number of cards before the move:
\* the same ids, the moved card once, and every card's stored position equal
\* to its index.
C10_MoveWithinColumn ==
    [][(/\ last'.op = "moveCard" /\ last'.ok
        /\ last'.from = last'.b
        /\ last'.p >= 0) =>
          LET c == last'.a
              T == last'.b
              old == CardIds(data, T)
              n == Len(old)
              rest == SelectSeq(old, LAMBDA x : x # c)
              q == IF last'.p < n - 1 THEN last'.p ELSE n - 1
              new == CardIds(data', T)
          IN /\ new = SubSeq(rest, 1, q) \o <<c>> \o SubSeq(rest, q + 1, n - 1)
             /\ Range(new) = Range(old)
             /\ Len(new) = n
             /\ Cardinality({i \in 1..n : new[i] = c}) = 1
             /\ \A i \in 1..n : data'.cards[new[i]].position = i - 1]_vars

\* C10 witness: one of three cards of a column was moved to the end of
\* the same column with a position beyond the list.
C10_MovedFirstToEnd ==
    /\ last.op = "moveCard" /\ last.ok /\ last.from = last.b
    /\ last.p = 3
    /\ Len(CardIds(data, last.b)) = 3
    /\ CardIds(data, last.b)[3] = last.a

\* C11: every successful moveCard, whatever integer position it is given
\* (negative, in range, beyond the list), leaves the moved card with a stored
\* position that lies within the target column's list and is the card's
\* index in that list.
C11_MovePositionClamped ==
    [][(last'.op = "moveCard" /\ last'.ok) =>
          LET c == last'.a
              new == CardIds(data', last'.b)
              pos == data'.cards[c].position
          IN /\ 0 <= pos
             /\ pos < Len(new)
             /\ new[pos + 1] = c]_vars

\* C12: while the store accepts every write, createBoard without column
\* names creates exactly the three columns "To Do", "In Progress", "Done", and
\* createBoard with k names exactly those k columns, in that order at
\* positions 0..k-1; the new board's column list holds the new column ids in
\* that order and each new column's board_id is the new board.
C12_CreateBoardSeedsColumns ==
    [][(last'.op = "createBoard" /\ saveFailures' = saveFailures) =>
          LET B == last'.ret
              names == IF last'.ids = <<>> THEN <<"To Do", "In Progress", "Done">>
                       ELSE last'.ids
              new == ColumnIds(data', B)
          IN /\ B \notin DOMAIN data.boards
             /\ DOMAIN data'.boards = (DOMAIN data.boards) \cup {B}
             /\ Len(new) = Len(names)
             /\ NoDuplicates(new)
             /\ Range(new) = (DOMAIN data'.columns) \ (DOMAIN data.columns)
             /\ \A i \in 1..Len(new) :
                   /\ data'.columns[new[i]].name = names[i]
                   /\ data'.columns[new[i]].position = i - 1
                   /\ data'.columns[new[i]].board_id = B
             /\ \A c \in DOMAIN data.columns : data'.columns[c] = data.columns[c]]_vars

\* C12 witness: a board was just created without column names and has the
\* three default columns.
C12_DefaultBoardCreated ==
    /\ last.op = "createBoard" /\ last.ids = <<>>
    /\ last.ret \in DOMAIN data.boards
    /\ Len(ColumnIds(data, last.ret)) = 3

\* the call recorded in L touched neither the document nor the store,
\* invoked no observer and raised nothing
SilentNoOp(L) ==
    /\ data' = data
    /\ saved' = saved
    /\ \A i \in 1..Len(L.steps) : L.steps[i] \notin {"mutate", "flush", "notify"}
    /\ \A f \in Callbacks : L.event.calls[f] = 0
    /\ ~L.raisedOut

\* C13: while the store accepts every write and no observer changes the
\* registry during a delivery, a deleteCard on a card id that
\* was deleted before raises nothing, leaves the document unchanged, flushes
\* nothing and invokes no observer; a deleteCard on a stored card removes it
\* and invokes every observer of the card's board exactly once, with
\* card_deleted.
C13_DeleteCardIdempotent ==
    [][(last'.op = "deleteCard" /\ saveFailures' = saveFailures
                                /\ last'.react = NoReaction) =>
          IF HasCard(data, last'.a)
          THEN /\ ~HasCard(data', last'.a)
               /\ \A f \in Callbacks :
                     IF f \in Observers(BoardOf(data, data.cards[last'.a].column_id))
                     THEN /\ last'.event.calls[f] = 1
                          /\ last'.event.type = "card_deleted"
                     ELSE last'.event.calls[f] = 0
          ELSE SilentNoOp(last') /\ last'.ret = None]_vars

\* C13 witness: deleteCard was called on a card that is gone, while an
\* observer is registered.
C13_DeletedAgain ==
    /\ last.op = "deleteCard" /\ ~last.ok
    /\ ~HasCard(data, last.a)
    /\ DOMAIN subscribers # {}

\* C14: addColumn on an unknown board, createCard on an unknown column,
\* updateCard on an unknown card and moveCard on an unknown card or an unknown
\* target column return nothing, raise nothing, leave the whole document
\* unchanged (a card that was to be moved is still in its column's list),
\* flush nothing and invoke no observer.
C14_NotFoundIsSilent ==
    [][(\/ last'.op = "addColumn" /\ ~HasBoard(data, last'.a)
        \/ last'.op = "createCard" /\ ~HasColumn(data, last'.a)
        \/ last'.op = "updateCard" /\ ~HasCard(data, last'.a)
        \/ last'.op = "moveCard"
              /\ (~HasCard(data, last'.a) \/ ~HasColumn(data, last'.b))) =>
          /\ SilentNoOp(last')
          /\ last'.ret = None
          /\ (last'.op = "moveCard" /\ HasCard(data, last'.a)) =>
                 last'.a \in Range(CardIds(data', data'.cards[last'.a].column_id))]_vars

\* C14 witness: moveCard was called on a stored card with a target column
\* that does not exist, while an observer is registered.
C14_MoveToUnknownColumn ==
    /\ last.op = "moveCard" /\ ~last.ok
    /\ HasCard(data, last.a) /\ ~HasColumn(data, last.b)
    /\ DOMAIN subscribers # {}

\* C15: a deleteBoard or reorderColumns call that names a board which is not
\* stored leaves the document unchanged, flushes nothing and invokes no
\* observer, also not one that is registered under that board id (so a second
\* deleteBoard of a board delivers no second board_deleted).
C15_AbsentBoardIsSilent ==
    [][(last'.op \in {"deleteBoard", "reorderColumns"} /\ ~HasBoard(data, last'.a)) =>
          SilentNoOp(last')]_vars

\* C16: a successful addColumn on board B with n columns, at a position p
\* with 0 <= p <= n (p = n when no position is given), puts the new column at
\* index p of B's list with stored position p, keeps the columns that were at
\* an index < p in place and moves every column that was at an index >= p
\* one index up, with its stored position following.
C16_AddColumnAtPosition ==
    [][(last'.op = "addColumn" /\ last'.ok) =>
          LET B == last'.a
              X == last'.ret
              old == ColumnIds(data, B)
              new == ColumnIds(data', B)
              n == Len(old)
              p == IF last'.p = None THEN n ELSE last'.p
          IN (0 <= p /\ p <= n) =>
                /\ Len(new) = n + 1
                /\ new[p + 1] = X
                /\ data'.columns[X].position = p
                /\ \A i \in 1..n :
                      /\ new[IF i <= p THEN i ELSE i + 1] = old[i]
                      /\ (i > p /\ old[i] \in DOMAIN data'.columns) =>
                             data'.columns[old[i]].position = i]_vars

\* C17: the card_moved event of a successful moveCard with a requested
\* position >= 0 (in range or beyond the target list; a negative one is the
\* case of C11) carries as from_column the column the card was in before the
\* move and as position the moved card's final stored position, which is its
\* index in the target list after the move.
C17_MoveEventPosition ==
    [][(/\ last'.op = "moveCard" /\ last'.ok
        /\ last'.p >= 0
        /\ last'.event.type = "card_moved") =>
          LET c == last'.a
              new == CardIds(data', last'.b)
          IN /\ last'.event.from_column = data.cards[c].column_id
             /\ last'.event.position = data'.cards[c].position
             /\ last'.event.position < Len(new)
             /\ new[last'.event.position + 1] = c]_vars

\* the registrations that were made and whose cancellation handle was never
\* called
LiveRegistrations == handles \ cancelled

\* the board whose observers the call recorded in L is to notify, read in the
\* document D the call started from (for moveCard: the target column's board)
EventBoard(D, L) ==
    CASE L.op \in {"addColumn", "reorderColumns", "deleteBoard"} -> L.a
      [] L.op \in {"deleteColumn", "createCard"} -> BoardOf(D, L.a)
      [] L.op \in {"updateCard", "deleteCard"} -> BoardOf(D, D.cards[L.a].column_id)
      [] L.op = "moveCard" -> BoardOf(D, L.b)
      [] OTHER -> None

\* C18: calling a cancellation handle removes that registration and no other:
\* after the call every registration whose handle was never called is still
\* in the registry (also a second registration of the same callback on the
\* same board), and every such registration is invoked once by each later
\* successful mutation of its board.
C18_CancelRemovesOnlyThat ==
    [][/\ (last'.op = "unsubscribe") =>
             \A h \in handles' \ cancelled' :
                 /\ h.board \in DOMAIN subscribers'
                 /\ h.cb \in subscribers'[h.board]
       /\ (last'.op \in Mutations /\ last'.ok) =>
             \A h \in LiveRegistrations :
                 h.board = EventBoard(data, last') => last'.event.calls[h.cb] = 1]_vars

\* C19: the registry never maps a board id to an empty set of observers; a
\* subscribe leaves an entry for its board (creating it when there was none)
\* and touches no other entry; a cancellation leaves the board's entry exactly
\* when an observer is left in its set, and touches no other entry.
C19_RegistryStateMachine ==
    [][/\ \A b \in DOMAIN subscribers' : subscribers'[b] # {}
       /\ (last'.op \in {"subscribe", "unsubscribe"}) =>
             \A b \in (DOMAIN subscribers \cup DOMAIN subscribers') \ {last'.a} :
                 /\ b \in DOMAIN subscribers /\ b \in DOMAIN subscribers'
                 /\ subscribers'[b] = subscribers[b]
       /\ (last'.op = "subscribe") =>
             /\ last'.a \in DOMAIN subscribers'
             /\ subscribers'[last'.a] \ Observers(last'.a) \subseteq Callbacks
             /\ Observers(last'.a) \subseteq subscribers'[last'.a]
             /\ Cardinality(subscribers'[last'.a] \ Observers(last'.a)) <= 1
       /\ (last'.op = "unsubscribe" /\ last'.ok) =>
             /\ last'.a \in DOMAIN subscribers
             /\ IF last'.a \in DOMAIN subscribers'
                THEN /\ subscribers'[last'.a] \subseteq subscribers[last'.a]
                     /\ Cardinality(subscribers[last'.a] \ subscribers'[last'.a]) <= 1
                ELSE Cardinality(subscribers[last'.a]) = 1]_vars

\* C19 witness: a cancellation emptied a board's set and removed its entry
\* while another board keeps its entry.
C19_EntryRemoved ==
    /\ last.op = "unsubscribe" /\ last.ok
    /\ last.a \notin DOMAIN subscribers
    /\ DOMAIN subscribers # {}

\* C20: every successful mutating call (createBoard included) whose observers
\* leave the registry alone during the delivery does its steps
\* in the order mutation, flush, delivery, return: every change of the
\* document is followed by a flush, no observer is invoked before the last
\* flush, all observers of the notified board are invoked before the return,
\* which is the last step, and the document last flushed is the in-memory
\* document at the return.
C20_MutateFlushNotifyReturn ==
    [][(last'.op \in Mutations \cup {"createBoard"} /\ last'.ok
                                                     /\ last'.react = NoReaction) =>
          LET st == last'.steps
              n == Len(st)
          IN /\ n >= 3
             /\ st[1] = "mutate"
             /\ st[n] = "return"
             /\ \A i \in 1..(n - 1) : st[i] \in {"mutate", "flush", "notify"}
             /\ \A i \in 1..n : st[i] = "mutate" => \E j \in (i + 1)..n : st[j] = "flush"
             /\ \A i, j \in 1..n :
                   (st[i] = "notify" /\ st[j] \in {"mutate", "flush"}) => j < i
             /\ Cardinality({i \in 1..n : st[i] = "notify"})
                   = Cardinality(Observers(EventBoard(data, last')))
             /\ saved' = data']_vars

\* C20 witness: a card was created in a column of a board with two observers:
\* mutation, flush, two deliveries, return.
C20_CreatedCardWithTwoObservers ==
    /\ last.op = "createCard" /\ last.ok
    /\ last.steps = <<"mutate", "flush", "notify", "notify", "return">>
    /\ saved = data

\* the change the call recorded in L was to make is in document D2; D is the
\* document the call started from
MutationKept(D, D2, L) ==
    CASE L.op = "createBoard" ->
            \E b \in DOMAIN D2.boards : b \notin DOMAIN D.boards
      [] L.op = "addColumn" ->
            \E c \in DOMAIN D2.columns :
                c \notin DOMAIN D.columns /\ c \in Range(ColumnIds(D2, L.a))
      [] L.op = "reorderColumns" -> ColumnIds(D2, L.a) = L.ids
      [] L.op = "deleteColumn" -> L.a \in DOMAIN D.columns /\ L.a \notin DOMAIN D2.columns
      [] L.op = "createCard" ->
            \E k \in DOMAIN D2.cards :
                k \notin DOMAIN D.cards /\ k \in Range(CardIds(D2, L.a))
      [] L.op = "updateCard" -> L.a \in DOMAIN D2.cards
      [] L.op = "moveCard" ->
            /\ D2.cards[L.a].column_id = L.b
            /\ L.a \in Range(CardIds(D2, L.b))
      [] L.op = "deleteCard" -> L.a \in DOMAIN D.cards /\ L.a \notin DOMAIN D2.cards
      [] L.op = "deleteBoard" -> L.a \in DOMAIN D.boards /\ L.a \notin DOMAIN D2.boards
      [] OTHER -> FALSE

\* C21: when the store's write raises during a mutating call, the exception
\* reaches the caller (the call does not return), the in-memory document keeps
\* the call's change, the failed write is not repeated (the stored document is
\* not the in-memory one), and no observer is invoked.
C21_SaveFailurePropagates ==
    [][(saveFailures' # saveFailures) =>
          /\ last'.op \in Mutations \cup {"createBoard"}
          /\ last'.raisedOut
          /\ last'.ret = None
          /\ \A i \in 1..Len(last'.steps) : last'.steps[i] \notin {"notify", "return"}
          /\ MutationKept(data, data', last')
          /\ IF last'.op = "createBoard" THEN saved' # data' ELSE saved' = saved
          /\ \A f \in Callbacks : last'.event.calls[f] = 0]_vars

\* C21 witness: the write of a moveCard into another column raised while an
\* observer was registered for the board; the card is in the target column in
\* memory, and the stored document still has it in the old column.
C21_MoveNotSaved ==
    /\ last.op = "moveCard" /\ last.raisedOut
    /\ saveFailures = 1
    /\ last.from # last.b
    /\ Observers(BoardOf(data, last.b)) # {}
    /\ data.cards[last.a].column_id = last.b
    /\ saved.cards[last.a].column_id = last.from

\* C22: a successful updateCard overwrites exactly those of title, due date
\* and labels that were given with a non-empty value (an absent one, an empty
\* string or an empty list keeps the previous value), refreshes updated_at,
\* and leaves the card's column_id and position, every column's card list,
\* every other card, every column and every board unchanged.
C22_UpdateCardFrame ==
    [][(last'.op = "updateCard" /\ last'.ok) =>
          LET c == last'.a
              u == last'.content
              old == data.cards[c]
              new == data'.cards[c]
          IN /\ new.title = IF u.title \in {<<>>, <<"">>} THEN old.title
                            ELSE u.title[1]
             /\ new.labels = IF u.labels \in {<<>>, << <<>> >>} THEN old.labels
                             ELSE u.labels[1]
             /\ new.due_date = IF u.due_date \in {<<>>, <<"">>} THEN old.due_date
                               ELSE <<"2026-01-02">>
             /\ new.updated_at >= old.updated_at
             /\ old.updated_at < limits.clock => new.updated_at > old.updated_at
             /\ new.column_id = old.column_id
             /\ new.position = old.position
             /\ DOMAIN data'.cards = DOMAIN data.cards
             /\ \A k \in DOMAIN data.cards : k # c => data'.cards[k] = data.cards[k]
             /\ data'.columns = data.columns
             /\ data'.boards = data.boards]_vars

\* C23: a createCard that returns its card, on column C at a position p with
\* 0 <= p <= len(C.card_ids) puts the new card at index p of C's list, and
\* without a position at the end; afterwards every card of C has a stored
\* position equal to its index, the cards that were at an index >= p are one
\* index further, and no other column's list has changed.
C23_CreateCardAtPosition ==
    [][(/\ last'.op = "createCard" /\ last'.ok /\ ~last'.raisedOut
        /\ (last'.p = None
            \/ (0 <= last'.p /\ last'.p <= Len(CardIds(data, last'.a))))) =>
          LET C == last'.a
              k == last'.ret
              old == CardIds(data, C)
              new == CardIds(data', C)
              p == IF last'.p = None THEN Len(old) ELSE last'.p
          IN /\ k \notin DOMAIN data.cards
             /\ Len(new) = Len(old) + 1
             /\ new[p + 1] = k
             /\ \A i \in 1..Len(old) : new[IF i <= p THEN i ELSE i + 1] = old[i]
             /\ \A i \in 1..Len(new) : data'.cards[new[i]].position = i - 1
             /\ \A c \in DOMAIN data.columns :
                   c # C => c \in DOMAIN data'.columns /\ CardIds(data', c) = CardIds(data, c)]_vars

\* C23 witness: a card was created at index 1 of a column that held two
\* cards, between them.
C23_CreatedInMiddle ==
    /\ last.op = "createCard" /\ last.ok
    /\ last.p = 1
    /\ Len(CardIds(data, last.a)) = 3
    /\ CardIds(data, last.a)[2] = last.ret

\* C24: the card a successful createCard returns, and the card its
\* card_created event carries, have the fields of the card record stored
\* under the new id when the call returns (position and column_id among
\* them), whatever position was requested.
C24_CreatedCardIsCanonical ==
    [][(last'.op = "createCard" /\ last'.ok) =>
          /\ last'.entity = <<data'.cards[last'.ret]>>
          /\ last'.event.type = "card_created" =>
                 last'.event.position = data'.cards[last'.ret].position]_vars

\* the list t holds the ids of the list s, each as often as s does
SameIds(s, t) ==
    /\ Len(s) = Len(t)
    /\ \A x \in Range(s) \cup Range(t) :
          Cardinality({i \in 1..Len(s) : s[i] = x})
              = Cardinality({i \in 1..Len(t) : t[i] = x})

\* C25: a reorderColumns(B, ids) with ids a permutation of B's column list
\* (the same ids, each as often), in any reachable state, makes B's list ids in that order, gives every listed column the position
\* of its index in ids, invokes every observer of B once with
\* columns_reordered, and leaves the set of columns, every column's name,
\* board and card list, every card and every other board's list unchanged.
C25_ReorderPermutation ==
    [][(/\ last'.op = "reorderColumns" /\ last'.ok
        /\ SameIds(ColumnIds(data, last'.a), last'.ids)) =>
          LET B == last'.a
              ids == last'.ids
          IN /\ ColumnIds(data', B) = ids
             /\ \A i \in 1..Len(ids) :
                   ids[i] \in DOMAIN data.columns =>
                       data'.columns[ids[i]].position = i - 1
             /\ \A f \in Callbacks :
                   last'.event.calls[f] = IF f \in Observers(B) THEN 1 ELSE 0
             /\ Observers(B) # {} => last'.event.type = "columns_reordered"
             /\ DOMAIN data'.columns = DOMAIN data.columns
             /\ \A c \in DOMAIN data.columns :
                   /\ data'.columns[c].card_ids = data.columns[c].card_ids
                   /\ data'.columns[c].board_id = data.columns[c].board_id
                   /\ data'.columns[c].name = data.columns[c].name
                   /\ c \notin Range(ids) => data'.columns[c] = data.columns[c]
             /\ data'.cards = data.cards
             /\ DOMAIN data'.boards = DOMAIN data.boards
             /\ \A b \in DOMAIN data.boards :
                   b # B => ColumnIds(data', b) = ColumnIds(data, b)]_vars

\* C26: when a card leaves a column, by deleteCard or by a moveCard into a
\* different column, every card that remains in that column has, right after
\* the call, a stored position equal to its index in the column's list.
C26_SourceColumnReindexed ==
    [][(/\ last'.ok
        /\ \/ last'.op = "deleteCard"
           \/ last'.op = "moveCard" /\ last'.from # last'.b) =>
          LET src == data.cards[last'.a].column_id
          IN src \in DOMAIN data'.columns =>
                \A i \in 1..Len(CardIds(data', src)) :
                    data'.cards[CardIds(data', src)[i]].position = i - 1]_vars

\* C27: after a deleteColumn of a column that is not the last of its board's
\* list, every remaining column of the board has a stored position equal to
\* its index in the board's list; and an addColumn without a position gives
\* the new column a position that no other column of the board holds.
C27_ColumnsReindexedAfterDelete ==
    [][/\ (/\ last'.op = "deleteColumn" /\ last'.ok
           /\ BoardOf(data, last'.a) \in DOMAIN data.boards
           /\ \E i \in 1..(Len(ColumnIds(data, BoardOf(data, last'.a))) - 1) :
                  ColumnIds(data, BoardOf(data, last'.a))[i] = last'.a) =>
             LET new == ColumnIds(data', BoardOf(data, last'.a))
             IN \A i \in 1..Len(new) :
                    new[i] \in DOMAIN data'.columns =>
                        data'.columns[new[i]].position = i - 1
       /\ (last'.op = "addColumn" /\ last'.ok /\ last'.p = None) =>
             \A c \in Range(ColumnIds(data', last'.a)) :
                 (c # last'.ret /\ c \in DOMAIN data'.columns) =>
                     data'.columns[c].position # data'.columns[last'.ret].position]_vars

\* C28: a successful moveCard from a column of board B1 into a column of a
\* different board B2 invokes every observer registered for B1 and every
\* observer registered for B2 once, with card_moved.
C28_CrossBoardMoveNotifiesBoth ==
    [][(/\ last'.op = "moveCard" /\ last'.ok
        /\ BoardOf(data, last'.from) # None
        /\ BoardOf(data, last'.from) # BoardOf(data, last'.b)) =>
          \A f \in Observers(BoardOf(data, last'.from))
                     \cup Observers(BoardOf(data, last'.b)) :
              /\ last'.event.calls[f] = 1
              /\ last'.event.type = "card_moved"]_vars

\* C29: a createCard on a stored column or an updateCard on a stored card
\* that is given a due-date string which is no ISO date raises to the caller
\* and has no effect: the document is unchanged (no card added, no field of
\* the card altered, also when a valid title or valid labels came with it),
\* nothing is flushed, no id is used up and no observer is invoked.
C29_MalformedDueDateNoEffect ==
    [][(/\ last'.op \in {"createCard", "updateCard"}
        /\ last'.content.due_date = <<"tomorrow">>
        /\ last'.op = "createCard" => HasColumn(data, last'.a)
        /\ last'.op = "updateCard" => HasCard(data, last'.a)) =>
          /\ last'.raisedOut
          /\ last'.ret = None
          /\ data' = data
          /\ saved' = saved
          /\ nextId' = nextId
          /\ \A i \in 1..Len(last'.steps) :
                last'.steps[i] \notin {"mutate", "flush", "notify", "return"}
          /\ \A f \in Callbacks : last'.event.calls[f] = 0]_vars

\* C29 witness: updateCard was given a new title together with a malformed
\* due date, on a card of a board with an observer; the card keeps its title.
C29_UpdateWithBadDate ==
    /\ last.op = "updateCard" /\ last.raisedOut
    /\ last.content.title = <<"T2">>
    /\ last.content.due_date = <<"tomorrow">>
    /\ HasCard(data, last.a)
    /\ data.cards[last.a].title = "T1"
    /\ Observers(BoardOf(data, data.cards[last.a].column_id)) # {}

\* C30: whenever a mutating call invokes a callback, that callback is
\* registered under the id of a board the call is on (the board named, or the
\* board of the column or card named): a callback registered only for other
\* boards is not invoked.
C30_OnlyObserversOfTheBoard ==
    [][(last'.op \in Mutations /\ \E f \in Callbacks : last'.event.calls[f] > 0) =>
          LET Bs == IF last'.ok THEN AffectedBoards(data, last') ELSE {last'.a}
          IN \A f \in Callbacks :
                 last'.event.calls[f] > 0 => \E b \in Bs : f \in Observers(b)]_vars

\* C30 witness: a card was created on a board whose observer was invoked
\* while a callback registered only for another board was not.
C30_OtherBoardNotInvoked ==
    /\ last.op = "createCard" /\ last.ok
    /\ \E f, g \in Callbacks :
          /\ f # g
          /\ last.event.calls[f] = 1 /\ last.event.calls[g] = 0
          /\ f \in Observers(BoardOf(data, last.a))
          /\ g \notin Observers(BoardOf(data, last.a))
          /\ \E b \in DOMAIN subscribers : g \in subscribers[b]

\* C31: calling a cancellation handle that was called before raises nothing
\* and changes no registration, whether other observers are still registered
\* for the board or the first call removed the board's last observer.
C31_SecondCancelIsNoOp ==
    [][(last'.op = "unsubscribe" /\ cancelled' = cancelled) =>
          /\ ~last'.raisedOut
          /\ subscribers' = subscribers]_vars

\* C34: in every reachable state there is no orphan card: every stored card
\* names in its column_id a column that exists in the store, and the card's id
\* appears in that column's card list.
C34_NoOrphanCard ==
    \A k \in DOMAIN data.cards :
        /\ data.cards[k].column_id \in DOMAIN data.columns
        /\ k \in Range(CardIds(data, data.cards[k].column_id))

\* C34 witness: a column that held a card was deleted (by deleteColumn or by
\* the cascade of deleteBoard) while a card of another column stays stored.
C34_CascadeLeftOtherCard ==
    /\ last.op \in {"deleteColumn", "deleteBoard"} /\ last.ok
    /\ last.removed # {}
    /\ DOMAIN data.cards # {}

\* C32: when an observer calls a cancellation handle of the board or registers
\* an observer for the board while an event is delivered to it, the operation
\* that delivers the event returns without raising, and every observer that
\* was registered when the delivery started and was not cancelled is invoked
\* once.
C32_ReentrantDeliveryCompletes ==
    [][last'.react.act # "none" =>
          /\ ~last'.raisedOut
          /\ \A f \in subscribers[last'.react.board] :
                ~(last'.react.act = "cancel" /\ last'.react.h.cb = f) =>
                    last'.event.calls[f] = 1]_vars

\* the document after the storage operation of call L has run on document D
Sequential(D, L) ==
    IF ~L.ok THEN D
    ELSE CASE L.op = "addColumn" ->
                StorageCreateColumn(D, L.ret,
                    ColumnCreate(L.a, "X", IF L.p = None
                                           THEN Len(D.boards[L.a].column_ids)
                                           ELSE L.p))
           [] L.op = "deleteColumn" -> StorageDeleteColumn(D, L.a)
           [] L.op = "createCard" -> StorageCreateCard(D, L.ret, L.entity[1])
           [] L.op = "updateCard" ->
                StorageUpdateCard(D, L.a,
                                  ApplyUpdates(CardRoundTrip(D.cards[L.a]), L.content))
           [] L.op = "moveCard" -> StorageMoveCard(D, L.a, L.b, L.p)
           [] L.op = "deleteCard" -> StorageDeleteCard(D, L.a)
           [] OTHER -> D

\* every stored card id is in the list of exactly one column, once
OneListPerCard(D) ==
    /\ \A k \in DOMAIN D.cards :
          Cardinality({c \in DOMAIN D.columns : k \in Range(CardIds(D, c))}) = 1
    /\ \A c \in DOMAIN D.columns :
          /\ NoDuplicates(CardIds(D, c))
          /\ Range(CardIds(D, c)) \subseteq DOMAIN D.cards

\* C33: addColumn, deleteColumn, createCard, updateCard, moveCard and
\* deleteCard have made their whole change of the in-memory document when
\* they are suspended in the flush; a call of one of them that runs while
\* another is suspended leaves the document that the two calls leave when run
\* one after the other (the suspended one first), the resumed call changes
\* nothing more, and in that document every card id is in exactly one list.
C33_OverlapIsSequential ==
    [][/\ (inflight = <<>> /\ inflight' # <<>>) =>
             data' = Sequential(data, inflight'[1].call)
       /\ (inflight # <<>> /\ inflight' = inflight /\ last'.op \in Suspendable) =>
             /\ data' = Sequential(Sequential(inflight[1].base, inflight[1].call),
                                   last')
             /\ OneListPerCard(data')
       /\ (inflight # <<>> /\ inflight' = <<>>) =>
             /\ data' = data
             /\ OneListPerCard(data')]_vars

\* C33 witness: while an updateCard that set a title was suspended in its
\* flush, a moveCard put the same card into another column: the card has the
\* new title and is in the target column's list.
C33_MovedWhileUpdateSuspended ==
    /\ inflight # <<>>
    /\ inflight[1].call.op = "updateCard"
    /\ inflight[1].call.content.title = <<"T2">>
    /\ last.op = "moveCard" /\ last.ok /\ last.from # last.b
    /\ last.a = inflight[1].call.a
    /\ data.cards[last.a].title = "T2"
    /\ data.cards[last.a].column_id = last.b
    /\ last.a \in Range(CardIds(data, last.b))

====
